---- MODULE Spec2Model ----
(***************************************************************************)
(* A model of bojo, a command-line bullet journal (codekansas/bojo).        *)
(*                                                                         *)
(* Text is modelled as a sequence of atoms.  An atom is a one-character    *)
(* string, a terminal escape code, or a word that holds no line break; the *)
(* line break is the atom "\n".  Python values of different types are kept *)
(* apart by their record shape: None is [none |-> TRUE], an int n is       *)
(* [int |-> n], a str s is [str |-> s], an enum member is a record with    *)
(* the fields enum, name and value, a datetime is a record of its fields.  *)
(***************************************************************************)
EXTENDS Integers, Sequences, FiniteSets, TLC

VARIABLES
  token,      \* the string handed to a resolver
  call,       \* the function or command that ran last ("idle" before any)
  result,     \* what that call returned or raised
  db,         \* the item table: id -> row
  db0,        \* the item table as it was before the last command
  arg,        \* the arguments of the last command
  obj,        \* an Item object in memory
  opts,       \* the keyword arguments of Item.render
  rendered,   \* the text Item.render returned
  item_dict   \* the dictionary Item.as_dict returned

vars == <<token, call, result, db, db0, arg, obj, opts, rendered, item_dict>>

(***************************************************************************)
(* Python values                                                           *)
(***************************************************************************)
None == [none |-> TRUE]

PyInt(n) == [int |-> n]

PyStr(s) == [str |-> s]

IsInt(v) == DOMAIN v = {"int"}

Return(v) == [returns |-> v]

Raise(exc, msg) == [raises |-> exc, message |-> msg]

Returned(r) == "returns" \in DOMAIN r

Raised(r) == "raises" \in DOMAIN r

(***************************************************************************)
(* Text helpers: str.startswith, str.strip, str.lower, str.replace         *)
(***************************************************************************)
StartsWith(s, p) ==
  /\ Len(p) <= Len(s)
  /\ SubSeq(s, 1, Len(p)) = p

\* The characters str.strip() removes (Python's whitespace), as far as the
\* model's alphabet holds them.
Whitespace == {" ", "\n", "\t"}

RECURSIVE LStrip(_)
LStrip(s) ==
  IF s # <<>> /\ Head(s) \in Whitespace THEN LStrip(Tail(s)) ELSE s

RECURSIVE RStrip(_)
RStrip(s) ==
  IF s # <<>> /\ s[Len(s)] \in Whitespace
  THEN RStrip(SubSeq(s, 1, Len(s) - 1))
  ELSE s

Strip(s) == RStrip(LStrip(s))

UpperCase == <<"A", "B", "C", "D", "E", "F", "G", "H", "I", "J", "K", "L", "M",
               "N", "O", "P", "Q", "R", "S", "T", "U", "V", "W", "X", "Y", "Z">>

LowerCase == <<"a", "b", "c", "d", "e", "f", "g", "h", "i", "j", "k", "l", "m",
               "n", "o", "p", "q", "r", "s", "t", "u", "v", "w", "x", "y", "z">>

LowerChar(c) ==
  IF \E i \in 1..Len(UpperCase) : UpperCase[i] = c
  THEN LowerCase[CHOOSE i \in 1..Len(UpperCase) : UpperCase[i] = c]
  ELSE c

UpperChar(c) ==
  IF \E i \in 1..Len(LowerCase) : LowerCase[i] = c
  THEN UpperCase[CHOOSE i \in 1..Len(LowerCase) : LowerCase[i] = c]
  ELSE c

Lower(s) == [i \in 1..Len(s) |-> LowerChar(s[i])]

Upper(s) == [i \in 1..Len(s) |-> UpperChar(s[i])]

Replace(s, old, new) == [i \in 1..Len(s) |-> IF s[i] = old THEN new ELSE s[i]]

(***************************************************************************)
(* The enumerations (db.py)                                                *)
(***************************************************************************)
INCOMPLETE == [enum |-> "ItemState", name |-> "INCOMPLETE",
               value |-> <<"i", "n", "c", "o", "m", "p", "l", "e", "t", "e">>]

COMPLETE == [enum |-> "ItemState", name |-> "COMPLETE",
             value |-> <<"c", "o", "m", "p", "l", "e", "t", "e">>]

MIGRATED == [enum |-> "ItemState", name |-> "MIGRATED",
             value |-> <<"m", "i", "g", "r", "a", "t", "e", "d">>]

SCHEDULED == [enum |-> "ItemState", name |-> "SCHEDULED",
              value |-> <<"s", "c", "h", "e", "d", "u", "l", "e", "d">>]

IRRELEVANT == [enum |-> "ItemState", name |-> "IRRELEVANT",
               value |-> <<"i", "r", "r", "e", "l", "e", "v", "a", "n", "t">>]

NOTE == [enum |-> "ItemState", name |-> "NOTE",
         value |-> <<"n", "o", "t", "e">>]

EVENT == [enum |-> "ItemState", name |-> "EVENT",
          value |-> <<"e", "v", "e", "n", "t">>]

\* The members of ItemState, in the order the class declares them.
ItemState == <<INCOMPLETE, COMPLETE, MIGRATED, SCHEDULED, IRRELEVANT, NOTE, EVENT>>

ItemStates ==
  << [sym |-> <<".">>, state |-> INCOMPLETE, color |-> "red"],
     [sym |-> <<"x">>, state |-> COMPLETE,   color |-> "green"],
     [sym |-> <<"<">>, state |-> MIGRATED,   color |-> "blue"],
     [sym |-> <<">">>, state |-> SCHEDULED,  color |-> "cyan"],
     [sym |-> <<"i">>, state |-> IRRELEVANT, color |-> "white"],
     [sym |-> <<"-">>, state |-> NOTE,       color |-> "magenta"],
     [sym |-> <<"o">>, state |-> EVENT,      color |-> "yellow"] >>

PRIORITY == [enum |-> "ItemSignifier", name |-> "PRIORITY",
             value |-> <<"p", "r", "i", "o", "r", "i", "t", "y">>]

INSPIRATION == [enum |-> "ItemSignifier", name |-> "INSPIRATION",
                value |-> <<"i", "n", "s", "p", "i", "r", "a", "t", "i", "o", "n">>]

\* The members of ItemSignifier, in the order the class declares them.
ItemSignifier == <<PRIORITY, INSPIRATION>>

\* A dict is a sequence of [key, val] entries in insertion order.
Range(seq) == {seq[i] : i \in 1..Len(seq)}

Keys(d) == {e.key : e \in Range(d)}

Values(d) == {e.val : e \in Range(d)}

Get(d, k) == (CHOOSE e \in Range(d) : e.key = k).val

ItemStateColor == [i \in 1..Len(ItemStates) |->
                     [key |-> ItemStates[i].state, val |-> ItemStates[i].color]]

ItemStateDict == [i \in 1..Len(ItemStates) |->
                    [key |-> ItemStates[i].sym, val |-> ItemStates[i].state]]

ItemStateDictInv == [i \in 1..Len(ItemStateDict) |->
                       [key |-> ItemStateDict[i].val, val |-> ItemStateDict[i].key]]

ItemSignifierDict == << [key |-> <<"*">>, val |-> PRIORITY],
                        [key |-> <<"!">>, val |-> INSPIRATION] >>

ItemSignifierDictInv == [i \in 1..Len(ItemSignifierDict) |->
                           [key |-> ItemSignifierDict[i].val,
                            val |-> ItemSignifierDict[i].key]]

\* Enum(value): the member with that value, or ValueError.
HasValue(enum, s) == \E i \in 1..Len(enum) : enum[i].value = s

ByValue(enum, s) == enum[CHOOSE i \in 1..Len(enum) : enum[i].value = s]

(***************************************************************************)
(* The resolvers (render_utils.py; command_line.py holds the same          *)
(* parse_state and parse_signifier under the names _parse_state and        *)
(* _parse_signifier)                                                       *)
(***************************************************************************)
NONE_STR == <<"n", "o", "n", "e">>

ALL_STR == <<"a", "l", "l">>

ALL_CHOICES ==
  [i \in 1..Len(ItemStateDict) |-> ItemStateDict[i].key]
  \o [i \in 1..Len(ItemSignifierDict) |-> ItemSignifierDict[i].key]
  \o [i \in 1..Len(ItemState) |-> ItemState[i].value]
  \o [i \in 1..Len(ItemSignifier) |-> ItemSignifier[i].value]
  \o <<NONE_STR>>

\* for t in enum: if t.value.startswith(s): return t
HasPrefixMatch(enum, s) == \E i \in 1..Len(enum) : StartsWith(enum[i].value, s)

FirstPrefixMatch(enum, s) ==
  LET i == CHOOSE j \in 1..Len(enum) :
             /\ StartsWith(enum[j].value, s)
             /\ \A k \in 1..(j - 1) : ~StartsWith(enum[k].value, s)
  IN enum[i]

\* A bug: the threshold off by one upward.
PrefixAllowedOver3(s) == Len(s) > 3

\* A bug: the threshold one too low.
PrefixAllowedFrom2(s) == Len(s) >= 2

\* if len(s) >= 3:
PrefixAllowed(s) == Len(s) >= 3

parse_choice(s) ==
  IF s = NONE_STR \/ s = ALL_STR THEN Return(None)
  ELSE IF s \in Keys(ItemStateDict) THEN Return(Get(ItemStateDict, s))
  ELSE IF s \in Keys(ItemSignifierDict) THEN Return(Get(ItemSignifierDict, s))
  ELSE IF HasValue(ItemState, s) THEN Return(ByValue(ItemState, s))
  ELSE IF HasValue(ItemSignifier, s) THEN Return(ByValue(ItemSignifier, s))
  ELSE IF PrefixAllowed(s) /\ HasPrefixMatch(ItemState, s)
  THEN Return(FirstPrefixMatch(ItemState, s))
  ELSE IF PrefixAllowed(s) /\ HasPrefixMatch(ItemSignifier, s)
  THEN Return(FirstPrefixMatch(ItemSignifier, s))
  ELSE Raise("ValueError", [what |-> "Invalid choice", got |-> s,
                             options |-> ALL_CHOICES])

\* A bug: the strict resolver falling back to the lenient one.
parse_state_lenient(state0) ==
  parse_choice(Replace(Lower(Strip(state0)), "\n", " "))

parse_state(state0) ==
  LET state == Replace(Lower(Strip(state0)), "\n", " ") IN
  IF state \in Keys(ItemStateDict)
  THEN Return(Get(ItemStateDict, state))
  ELSE IF state \in {v.value : v \in Values(ItemStateDict)}
  THEN Return(ByValue(ItemState, state))
  ELSE Raise("RuntimeError", [what |-> "Invalid state", got |-> state,
                               options |-> ItemStateDict])

parse_signifier(signifier0) ==
  LET signifier == Replace(Lower(Strip(signifier0)), "\n", " ") IN
  IF signifier # NONE_STR
  THEN IF signifier \in Keys(ItemSignifierDict)
       THEN Return(Get(ItemSignifierDict, signifier))
       ELSE IF signifier \in {v.value : v \in Values(ItemSignifierDict)}
       THEN Return(ByValue(ItemSignifier, signifier))
       ELSE Raise("RuntimeError", [what |-> "Invalid signifier", got |-> signifier,
                                    options |-> ItemSignifierDict])
  ELSE Return(None)

(***************************************************************************)
(* The strings the resolvers are tried on                                  *)
(***************************************************************************)
MaxTokenLen == 3

Alphabet == {"c", "o", "m", "x", "X", " ", "\n"}

RECURSIVE StringsUpTo(_)
StringsUpTo(n) ==
  IF n = 0 THEN {<<>>}
  ELSE LET shorter == StringsUpTo(n - 1) IN
       shorter \cup {Append(s, c) : s \in shorter, c \in Alphabet}

Prefixes(s) == {SubSeq(s, 1, n) : n \in 0..Len(s)}

PlainTokens ==
  UNION {Prefixes(m.value) : m \in Range(ItemState) \cup Range(ItemSignifier)}
  \cup Keys(ItemStateDict) \cup Keys(ItemSignifierDict)
  \cup Prefixes(NONE_STR) \cup Prefixes(ALL_STR)
  \cup StringsUpTo(MaxTokenLen)

\* Each plain string as typed: as is, capitalised, in capitals, padded.
Typed(s) ==
  {s, Upper(s), <<" ">> \o s, s \o <<"\n">>, <<"\t">> \o s \o <<" ">>}
  \cup (IF s = <<>> THEN {} ELSE {<<UpperChar(s[1])>> \o Tail(s)})

Tokens == UNION {Typed(s) : s \in PlainTokens}

ResolveInit ==
  /\ token \in Tokens
  /\ call = "idle"
  /\ result = None
  /\ db = <<>>
  /\ db0 = <<>>
  /\ arg = None
  /\ obj = None
  /\ opts = None
  /\ rendered = <<>>
  /\ item_dict = None

CallParseChoice ==
  /\ call = "idle"
  /\ call' = "parse_choice"
  /\ result' = parse_choice(token)
  /\ UNCHANGED <<token, db, db0, arg, obj, opts, rendered, item_dict>>

CallParseState ==
  /\ call = "idle"
  /\ call' = "parse_state"
  /\ result' = parse_state(token)
  /\ UNCHANGED <<token, db, db0, arg, obj, opts, rendered, item_dict>>

CallParseSignifier ==
  /\ call = "idle"
  /\ call' = "parse_signifier"
  /\ result' = parse_signifier(token)
  /\ UNCHANGED <<token, db, db0, arg, obj, opts, rendered, item_dict>>

ResolveNext == CallParseChoice \/ CallParseState \/ CallParseSignifier

SpecResolve == ResolveInit /\ [][ResolveNext]_vars

(***************************************************************************)
(* Text: str.split, str.join, str(int)                                     *)
(***************************************************************************)
\* text.split('\n'): the lines of a text, at least one.
RECURSIVE Split(_)
Split(text) ==
  IF \A i \in 1..Len(text) : text[i] # "\n" THEN <<text>>
  ELSE LET i == CHOOSE j \in 1..Len(text) :
                  text[j] = "\n" /\ \A k \in 1..(j - 1) : text[k] # "\n"
       IN <<SubSeq(text, 1, i - 1)>> \o Split(SubSeq(text, i + 1, Len(text)))

\* '\n'.join(lines)
RECURSIVE Join(_)
Join(lines) ==
  IF lines = <<>> THEN <<>>
  ELSE IF Len(lines) = 1 THEN lines[1]
  ELSE lines[1] \o <<"\n">> \o Join(Tail(lines))

Digits == <<"0", "1", "2", "3", "4", "5", "6", "7", "8", "9">>

\* str(n) for n >= 0
RECURSIVE IntToText(_)
IntToText(n) ==
  IF n < 10 THEN <<Digits[n + 1]>>
  ELSE IntToText(n \div 10) \o <<Digits[(n % 10) + 1]>>

\* n zero-padded to w digits (strftime's %d, %I, %M, %Y)
RECURSIVE Padded(_, _)
Padded(n, w) ==
  IF w = 0 THEN <<>> ELSE Padded(n \div 10, w - 1) \o <<Digits[(n % 10) + 1]>>

(***************************************************************************)
(* termcolor.colored, as db.py uses it: one color or one attribute, then   *)
(* the text, then the reset code                                           *)
(***************************************************************************)
RESET == "ESC[0m"

Codes == << [key |-> "red", val |-> "ESC[31m"],
            [key |-> "green", val |-> "ESC[32m"],
            [key |-> "yellow", val |-> "ESC[33m"],
            [key |-> "blue", val |-> "ESC[34m"],
            [key |-> "magenta", val |-> "ESC[35m"],
            [key |-> "cyan", val |-> "ESC[36m"],
            [key |-> "white", val |-> "ESC[37m"],
            [key |-> "bold", val |-> "ESC[1m"],
            [key |-> "dark", val |-> "ESC[2m"],
            [key |-> "underline", val |-> "ESC[4m"] >>

colored(text, style) == <<Get(Codes, style)>> \o text \o <<RESET>>

(***************************************************************************)
(* datetime, Item.TIME_FORMAT = '%A, %B %d, %Y at %I:%M %p'                *)
(***************************************************************************)
datetime(y, mo, d, h, mi, s) ==
  [year |-> y, month |-> mo, day |-> d, hour |-> h, minute |-> mi, second |-> s]

IsLeap(y) == y % 4 = 0 /\ (y % 100 # 0 \/ y % 400 = 0)

DaysInMonth == <<31, 28, 31, 30, 31, 30, 31, 31, 30, 31, 30, 31>>

RECURSIVE DaysBeforeMonth(_, _)
DaysBeforeMonth(y, mo) ==
  IF mo = 1 THEN 0
  ELSE DaysBeforeMonth(y, mo - 1) + DaysInMonth[mo - 1]
       + (IF mo - 1 = 2 /\ IsLeap(y) THEN 1 ELSE 0)

\* date.toordinal(): 1 for 0001-01-01
ToOrdinal(t) ==
  LET y == t.year - 1 IN
  y * 365 + (y \div 4) - (y \div 100) + (y \div 400)
  + DaysBeforeMonth(t.year, t.month) + t.day

WeekdayNames == <<"Monday", "Tuesday", "Wednesday", "Thursday", "Friday",
                  "Saturday", "Sunday">>

MonthNames == <<"January", "February", "March", "April", "May", "June", "July",
                "August", "September", "October", "November", "December">>

\* %A
Weekday(t) == WeekdayNames[((ToOrdinal(t) + 6) % 7) + 1]

\* %I
Hour12(h) == IF h % 12 = 0 THEN 12 ELSE h % 12

\* %p
AmPm(h) == IF h < 12 THEN "AM" ELSE "PM"

strftime(t) ==
  <<Weekday(t), ",", " ", MonthNames[t.month], " ">> \o Padded(t.day, 2)
  \o <<",", " ">> \o Padded(t.year, 4) \o <<" ", "a", "t", " ">>
  \o Padded(Hour12(t.hour), 2) \o <<":">> \o Padded(t.minute, 2)
  \o <<" ", AmPm(t.hour)>>

\* Item.__format_time
format_time(t) == IF t = None THEN None ELSE PyStr(strftime(t))

(***************************************************************************)
(* Item and Item.render (db.py)                                            *)
(***************************************************************************)
Item(id, description, state, signifier, time, time_created, time_updated, parent_id) ==
  [id |-> id, description |-> description, state |-> state,
   signifier |-> signifier, time |-> time, time_created |-> time_created,
   time_updated |-> time_updated, parent_id |-> parent_id]

\* The ids of a set, ascending.
RECURSIVE Ascending(_)
Ascending(S) ==
  IF S = {} THEN <<>>
  ELSE LET m == CHOOSE x \in S : \A y \in S : x <= y
       IN <<m>> \o Ascending(S \ {m})

\* Item.children: the rows whose parent_id is this item's id, as the table
\* yields them (by id); an item that was never stored has none.
ChildIds(table, self) ==
  IF self.id = None THEN {}
  ELSE {i \in DOMAIN table : table[i].parent_id = self.id}

children(table, self) ==
  LET ids == Ascending(ChildIds(table, self)) IN
  [k \in 1..Len(ids) |-> table[ids[k]]]

\* should_use_verbose(): whether BOJO_VERBOSE is in the environment.
should_use_verbose(env) == env.BOJO_VERBOSE

\* RenderOpts(**kwargs), after verbose_mode was defaulted from the environment.
RenderOpts(kwargs, env) ==
  [show_children |->
     IF "show_children" \in DOMAIN kwargs THEN kwargs.show_children ELSE TRUE,
   show_complete_children |->
     IF "show_complete_children" \in DOMAIN kwargs
     THEN kwargs.show_complete_children ELSE TRUE,
   verbose_mode |->
     IF "verbose_mode" \in DOMAIN kwargs THEN kwargs.verbose_mode
     ELSE should_use_verbose(env)]

\* A bug: the verbose flag ignored.
symbol_never_verbose(symbol, member, render_opts) == symbol

\* if render_opts.verbose_mode: symbol = f'{symbol} ({member.value})'
symbol_text(symbol, member, render_opts) ==
  IF render_opts.verbose_mode
  THEN symbol \o <<" ", "(">> \o member.value \o <<")">>
  ELSE symbol

\* The part of render before "Adds sub-representations": the item's own text.
render_self(self, render_opts) ==
  LET color == Get(ItemStateColor, self.state)
      rep1 == colored(self.description, color)
      state_symbol == symbol_text(Get(ItemStateDictInv, self.state), self.state,
                                  render_opts)
      rep2 == state_symbol \o <<" ">> \o rep1
      has_signifier == self.signifier \in Keys(ItemSignifierDictInv)
      signifier_symbol == symbol_text(Get(ItemSignifierDictInv, self.signifier),
                                      self.signifier, render_opts)
      rep3 == IF ~has_signifier THEN rep2
              ELSE IF self.signifier = PRIORITY
              THEN colored(signifier_symbol \o <<" ">> \o rep2, "bold")
              ELSE signifier_symbol \o <<" ">> \o rep2
      rep4 == IF self.time # None
              THEN rep3 \o <<" ">> \o colored(format_time(self.time).str, "dark")
              ELSE rep3
  IN IF self.id # None
     THEN colored(IntToText(self.id.int), "underline") \o <<" ">> \o rep4
     ELSE rep4

\* A bug: only the first line of a child's text indented.
IndentedOnce(sub_rep) == <<" ", " ">> \o sub_rep

\* '\n'.join(['  ' + c for c in sub_rep.split('\n')])
Indented(sub_rep) ==
  LET lines == Split(sub_rep) IN
  Join([k \in 1..Len(lines) |-> <<" ", " ">> \o lines[k]])

\* A bug: the flag read the wrong way round.
skip_child_inverted(child, render_opts) ==
  child.state = COMPLETE /\ render_opts.show_complete_children

\* if child.state == ItemState.COMPLETE and not render_opts.show_complete_children
skip_child(child, render_opts) ==
  child.state = COMPLETE /\ ~render_opts.show_complete_children

RECURSIVE render_with(_, _, _)
RECURSIVE render_children(_, _, _)
\* The loop over self.children: the texts appended to reps.
render_children(table, kids, render_opts) ==
  IF kids = <<>> THEN <<>>
  ELSE LET child == Head(kids) IN
       IF skip_child(child, render_opts)
       THEN render_children(table, Tail(kids), render_opts)
       ELSE <<Indented(render_with(table, child, render_opts))>>
            \o render_children(table, Tail(kids), render_opts)

\* render once render_opts is built; a child is rendered with these same options.
render_with(table, self, render_opts) ==
  LET reps == <<render_self(self, render_opts)>>
              \o (IF render_opts.show_children
                  THEN render_children(table, children(table, self), render_opts)
                  ELSE <<>>)
  IN Join(reps)

render(table, self, kwargs, env) == render_with(table, self, RenderOpts(kwargs, env))

(***************************************************************************)
(* The items and options Item.render is tried on                           *)
(***************************************************************************)
MaxItems == 4

a_description == <<"a">>

two_line_description == <<"a", "\n", "b">>

buy_milk == <<"B", "u", "y", " ", "m", "i", "l", "k">>

june_9 == datetime(2023, 6, 9, 14, 5, 0)

\* The rows a tree is built from: the i-th stored item, attached to an earlier one.
TreeRows(i) ==
  {Item(PyInt(i), d, st, None, None, None, None, par) :
     d \in {a_description, two_line_description},
     st \in {INCOMPLETE, COMPLETE},
     par \in IF i = 1 THEN {PyStr(NONE_STR)} ELSE {PyInt(p) : p \in 1..(i - 1)}}

\* The tables of n items that form one tree rooted at item 1.
RECURSIVE Trees(_)
Trees(n) ==
  IF n = 0 THEN {<<>>}
  ELSE {Append(t, row) : t \in Trees(n - 1), row \in TreeRows(n)}

\* The keyword arguments the commands pass (none, show_children=False,
\* show_complete_children=False), and both flags given.
TreeKwargs ==
  {[show_children |-> sc, show_complete_children |-> scc] : sc, scc \in BOOLEAN}
  \cup {<<>>, [show_children |-> FALSE], [show_complete_children |-> FALSE]}

\* Single items in full variety, stored (with an id) or not.
SingleItems ==
  {Item(id, buy_milk, st, sg, t, None, None, PyStr(NONE_STR)) :
     id \in {None, PyInt(3)}, st \in Range(ItemState),
     sg \in {None} \cup Range(ItemSignifier), t \in {None, june_9}}

SingleKwargs ==
  {[verbose_mode |-> v] : v \in BOOLEAN} \cup {<<>>}

Env == [BOJO_VERBOSE : BOOLEAN]

RenderInit ==
  /\ \/ /\ \E n \in 1..MaxItems : db \in Trees(n)
        /\ obj = db[1]
        /\ opts \in [kwargs : TreeKwargs, env : {[BOJO_VERBOSE |-> FALSE]}]
     \/ /\ obj \in SingleItems
        /\ db = IF obj.id = None THEN <<>> ELSE [i \in {obj.id.int} |-> obj]
        /\ opts \in [kwargs : SingleKwargs, env : Env]
  /\ db0 = db
  /\ token = <<>>
  /\ call = "idle"
  /\ result = None
  /\ arg = None
  /\ rendered = <<>>
  /\ item_dict = None

CallRender ==
  /\ call = "idle"
  /\ call' = "render"
  /\ rendered' = render(db, obj, opts.kwargs, opts.env)
  /\ UNCHANGED <<token, result, db, db0, arg, obj, opts, item_dict>>

RenderNext == CallRender

SpecRender == RenderInit /\ [][RenderNext]_vars

(***************************************************************************)
(* Item.as_dict and Item.from_dict (db.py)                                 *)
(***************************************************************************)
\* The decimal number a text of digits spells.
RECURSIVE ParseDigits(_)
ParseDigits(text) ==
  IF text = <<>> THEN 0
  ELSE ParseDigits(SubSeq(text, 1, Len(text) - 1)) * 10
       + (CHOOSE d \in 0..9 : Digits[d + 1] = text[Len(text)])

\* datetime.strptime(s, TIME_FORMAT) on a text strftime wrote: the weekday is
\* read and dropped, the format holds no seconds, so second is 0.
strptime(s) ==
  LET month == CHOOSE m \in 1..12 : MonthNames[m] = s[4]
      day == ParseDigits(SubSeq(s, 6, 7))
      year == ParseDigits(SubSeq(s, 10, 13))
      hour12 == ParseDigits(SubSeq(s, 18, 19))
      minute == ParseDigits(SubSeq(s, 21, 22))
      hour == (hour12 % 12) + (IF s[24] = "PM" THEN 12 ELSE 0)
  IN datetime(year, month, day, hour, minute, 0)

\* Item.__from_time
from_time(s) == IF s # None /\ s.str # <<>> THEN strptime(s.str) ELSE None

\* {k: v for k, v in item_dict.items() if v is not None}
WithoutNone(d) == [k \in {j \in DOMAIN d : d[j] # None} |-> d[k]]

as_dict(self) ==
  WithoutNone(
    [id |-> self.id,
     description |-> PyStr(self.description),
     state |-> PyStr(self.state.value),
     signifier |-> IF self.signifier = None THEN None ELSE PyStr(self.signifier.value),
     time |-> format_time(self.time),
     time_created |-> format_time(self.time_created),
     time_updated |-> format_time(self.time_updated),
     parent_id |-> IF IsInt(self.parent_id) THEN self.parent_id ELSE None])

\* item_dict.get(key, None)
DictGet(d, k) == IF k \in DOMAIN d THEN d[k] ELSE None

from_dict(d) ==
  IF \E k \in {"id", "description", "state"} : k \notin DOMAIN d
  THEN Raise("KeyError", CHOOSE k \in {"id", "description", "state"} : k \notin DOMAIN d)
  ELSE IF ~HasValue(ItemState, d.state.str)
  THEN Raise("ValueError", "not a valid ItemState")
  ELSE IF "signifier" \in DOMAIN d /\ ~HasValue(ItemSignifier, d.signifier.str)
  THEN Raise("ValueError", "not a valid ItemSignifier")
  ELSE Return(Item(d.id,
                   d.description.str,
                   ByValue(ItemState, d.state.str),
                   IF "signifier" \in DOMAIN d
                   THEN ByValue(ItemSignifier, d.signifier.str) ELSE None,
                   from_time(DictGet(d, "time")),
                   from_time(DictGet(d, "time_created")),
                   from_time(DictGet(d, "time_updated")),
                   DictGet(d, "parent_id")))

\* The items as_dict is tried on: stored items, every optional field present or not.
Timestamps ==
  {datetime(2023, 6, 9, 14, 5, 0), datetime(2023, 6, 9, 14, 5, 30),
   datetime(2024, 12, 31, 0, 0, 0), datetime(2024, 2, 29, 12, 59, 59)}

DictItems ==
  {Item(PyInt(3), buy_milk, st, sg, t, tc, tu, par) :
     st \in {INCOMPLETE, EVENT},
     sg \in {None} \cup Range(ItemSignifier),
     t \in {None} \cup Timestamps,
     tc \in {None} \cup Timestamps,
     tu \in {None} \cup Timestamps,
     par \in {None, PyInt(1), PyStr(NONE_STR)}}

DictInit ==
  /\ obj \in DictItems
  /\ token = <<>>
  /\ call = "idle"
  /\ result = None
  /\ db = <<>>
  /\ db0 = <<>>
  /\ arg = None
  /\ opts = None
  /\ rendered = <<>>
  /\ item_dict = None

CallAsDict ==
  /\ call = "idle"
  /\ call' = "as_dict"
  /\ item_dict' = as_dict(obj)
  /\ UNCHANGED <<token, result, db, db0, arg, obj, opts, rendered>>

CallFromDict ==
  /\ call = "as_dict"
  /\ call' = "from_dict"
  /\ result' = from_dict(item_dict)
  /\ UNCHANGED <<token, db, db0, arg, obj, opts, rendered, item_dict>>

DictNext == CallAsDict \/ CallFromDict

SpecDict == DictInit /\ [][DictNext]_vars

(***************************************************************************)
(* The store and the commands add and delete (command_line.py)             *)
(***************************************************************************)
MaxId == 3

\* datetime.now() and the database's now(); the commands modelled here never
\* compare two readings of the clock.
now == datetime(2023, 6, 9, 14, 5, 30)

\* The id the table gives a new row: one more than the largest id in use, as
\* SQLite does for an INTEGER PRIMARY KEY; 1 in an empty table.
NextId(table) ==
  IF DOMAIN table = {} THEN 1
  ELSE (CHOOSE m \in DOMAIN table : \A j \in DOMAIN table : j <= m) + 1

\* int(parent)
IsNumber(text) == text # <<>> /\ \A k \in 1..Len(text) : text[k] \in Range(Digits)

\* dateparser.parse, on the two phrases the model uses.
yesterday == <<"y", "e", "s", "t", "e", "r", "d", "a", "y">>

tomorrow == <<"t", "o", "m", "o", "r", "r", "o", "w">>

dateparser_parse(text) ==
  IF text = yesterday THEN datetime(2023, 6, 8, 14, 5, 30)
  ELSE IF text = tomorrow THEN datetime(2023, 6, 10, 14, 5, 30)
  ELSE None

\* session.query(Item).get(id)
get(table, id) == IF id \in DOMAIN table THEN table[id] ELSE None

\* Whether item i is its own transitive ancestor: following parent_id from i
\* comes back to i.
RECURSIVE ReachesUp(_, _, _, _)
ReachesUp(table, from, to, steps) ==
  /\ steps > 0
  /\ from \in DOMAIN table
  /\ IsInt(table[from].parent_id)
  /\ \/ table[from].parent_id.int = to
     \/ ReachesUp(table, table[from].parent_id.int, to, steps - 1)

OwnAncestor(table, i) == ReachesUp(table, i, i, Cardinality(DOMAIN table))

\* click.echo(item) of a stored item renders it with all its children, their
\* children and so on: the recursion of Item.render ends unless it comes back
\* to the item, and then Python raises RecursionError.
echo_raises(table, item) == OwnAncestor(table, item.id.int)

\* A bug: the cascade stopping at the children.
cascade_children_only(table, id) ==
  {id} \cup ChildIds(table, table[id])

\* cascade='all, delete-orphan': deleting an item deletes its children, and theirs.
RECURSIVE cascade(_, _)
cascade(table, id) ==
  {id} \cup UNION {cascade(table, c) : c \in ChildIds(table, table[id])}

\* session.delete(item); session.commit()
session_delete(table, id) ==
  [i \in DOMAIN table \ cascade(table, id) |-> table[i]]

\* session.add(item); session.commit(): the row gets its id and its creation time.
session_add(table, item) ==
  LET id == NextId(table) IN
  [i \in DOMAIN table \cup {id} |->
     IF i = id THEN [item EXCEPT !.id = PyInt(id), !.time_created = now]
     ELSE table[i]]

\* The command add: what it raises or returns, and the table it leaves.
add(table, description, state, signifier, parent, time, confirm) ==
  IF parent # NONE_STR /\ ~IsNumber(parent)
  THEN [result |-> Raise("ValueError", "invalid literal for int()"), table |-> table]
  ELSE IF Raised(parse_state(state))
  THEN [result |-> parse_state(state), table |-> table]
  ELSE IF Raised(parse_signifier(signifier))
  THEN [result |-> parse_signifier(signifier), table |-> table]
  ELSE LET item == Item(None, description,
                        parse_state(state).returns,
                        parse_signifier(signifier).returns,
                        IF time # NONE_STR THEN dateparser_parse(time) ELSE None,
                        None, None,
                        IF parent # NONE_STR THEN PyInt(ParseDigits(parent))
                        ELSE PyStr(parent))
       IN IF ~confirm
          THEN [result |-> Raise("Abort", "Do you want to add this item?"),
                table |-> table]
          ELSE [result |-> Return(None), table |-> session_add(table, item)]

\* The command delete.
delete(table, id, confirm) ==
  LET item == get(table, id) IN
  IF item = None
  THEN [result |-> Raise("RuntimeError", [what |-> "Item not found", id |-> id]),
        table |-> table]
  ELSE IF echo_raises(table, item)
  THEN [result |-> Raise("RecursionError", "maximum recursion depth exceeded"),
        table |-> table]
  ELSE IF ~confirm
  THEN [result |-> Raise("Abort", "Do you want to delete this item?"), table |-> table]
  ELSE [result |-> Return(None), table |-> session_delete(table, id)]

\* What the user types.
StateTokens == {<<".">>, <<"c", "o", "m", "p">>}

SignifierTokens == {NONE_STR}

TimeTokens == {NONE_STR}

ParentTokens == {NONE_STR, <<"x">>} \cup {IntToText(n) : n \in 1..MaxId}

StoreInit ==
  /\ db = <<>>
  /\ db0 = <<>>
  /\ call = "idle"
  /\ arg = None
  /\ result = None
  /\ token = <<>>
  /\ obj = None
  /\ opts = None
  /\ rendered = <<>>
  /\ item_dict = None

Add ==
  /\ NextId(db) <= MaxId
  /\ \E state \in StateTokens, signifier \in SignifierTokens, parent \in ParentTokens,
        time \in TimeTokens, confirm \in BOOLEAN :
       LET out == add(db, a_description, state, signifier, parent, time, confirm) IN
       /\ call' = "add"
       /\ arg' = [description |-> a_description, state |-> state,
                  signifier |-> signifier, parent |-> parent, time |-> time,
                  confirm |-> confirm]
       /\ result' = out.result
       /\ db' = out.table
       /\ db0' = db
  /\ UNCHANGED <<token, obj, opts, rendered, item_dict>>

Delete ==
  /\ \E id \in 1..MaxId, confirm \in BOOLEAN :
       LET out == delete(db, id, confirm) IN
       /\ call' = "delete"
       /\ arg' = [id |-> id, confirm |-> confirm]
       /\ result' = out.result
       /\ db' = out.table
       /\ db0' = db
  /\ UNCHANGED <<token, obj, opts, rendered, item_dict>>

StoreNext == Add \/ Delete

SpecStore == StoreInit /\ [][StoreNext]_vars

(***************************************************************************)
(* The commands mark, sig and complete (command_line.py)                   *)
(***************************************************************************)
MaxRows == 2

\* datetime.__lt__
SecondOfDay(t) == (t.hour * 60 + t.minute) * 60 + t.second

Before(t1, t2) ==
  \/ ToOrdinal(t1) < ToOrdinal(t2)
  \/ ToOrdinal(t1) = ToOrdinal(t2) /\ SecondOfDay(t1) < SecondOfDay(t2)

\* A bug: the write reaching every row of the table.
session_update_all(table, id, field, value) ==
  [i \in DOMAIN table |->
     [table[i] EXCEPT ![field] = value, !.time_updated = now]]

\* item.<field> = value; session.commit(): the unit of work writes the row only
\* when the value differs from the loaded one, and a written row gets a new
\* time_updated (onupdate=now()).
session_update(table, id, field, value) ==
  IF table[id][field] = value THEN table
  ELSE [table EXCEPT ![id] = [@ EXCEPT ![field] = value, !.time_updated = now]]

\* The command mark.
mark(table, state0, id) ==
  LET state == parse_state(state0) IN
  IF Raised(state)
  THEN [result |-> state, table |-> table]
  ELSE LET item == get(table, id) IN
       IF item = None
       THEN [result |-> Raise("RuntimeError", [what |-> "Item not found", id |-> id]),
             table |-> table]
       ELSE LET committed == session_update(table, id, "state", state.returns) IN
            IF echo_raises(committed, committed[id])
            THEN [result |-> Raise("RecursionError", "maximum recursion depth exceeded"),
                  table |-> committed]
            ELSE [result |-> Return(None), table |-> committed]

\* The command sig.  Its last line reads sig.value, and sig is the command
\* itself, which has no such attribute: once the id is found the command
\* commits and then raises.
sig(table, signifier0, id) ==
  LET signifier == parse_signifier(signifier0) IN
  IF Raised(signifier)
  THEN [result |-> signifier, table |-> table]
  ELSE LET item == get(table, id) IN
       IF item = None
       THEN [result |-> Raise("RuntimeError", [what |-> "Item not found", id |-> id]),
             table |-> table]
       ELSE LET committed == session_update(table, id, "signifier",
                                            signifier.returns) IN
            IF echo_raises(committed, committed[id])
            THEN [result |-> Raise("RecursionError", "maximum recursion depth exceeded"),
                  table |-> committed]
            ELSE [result |-> Raise("AttributeError",
                                   "'Command' object has no attribute 'value'"),
                  table |-> committed]

\* A bug: the sweep taking the items that have no time as well.
past_incomplete_or_timeless(table) ==
  {i \in DOMAIN table :
     /\ table[i].time = None \/ Before(table[i].time, now)
     /\ table[i].state # COMPLETE}

\* .filter(Item.time < datetime.now()).filter(Item.state != ItemState.COMPLETE):
\* a row without a time compares as NULL and is left out.
past_incomplete(table) ==
  {i \in DOMAIN table :
     /\ table[i].time # None
     /\ Before(table[i].time, now)
     /\ table[i].state # COMPLETE}

\* items.update({'state': ItemState.COMPLETE}); session.commit(): one UPDATE
\* over the selected rows, which also sets their time_updated.
query_update(table, ids, field, value) ==
  [i \in DOMAIN table |->
     IF i \in ids THEN [table[i] EXCEPT ![field] = value, !.time_updated = now]
     ELSE table[i]]

\* The command complete.
complete(table, list, confirm) ==
  IF list
  THEN IF \E i \in DOMAIN table :
            table[i].state = COMPLETE /\ echo_raises(table, table[i])
       THEN [result |-> Raise("RecursionError", "maximum recursion depth exceeded"),
             table |-> table]
       ELSE [result |-> Return(None), table |-> table]
  ELSE LET items == past_incomplete(table) IN
       IF items = {}
       THEN [result |-> Return(None), table |-> table]
       ELSE IF ~confirm
       THEN [result |-> Raise("Abort", "Mark items as complete?"), table |-> table]
       ELSE [result |-> Return(None),
             table |-> query_update(table, items, "state", COMPLETE)]

\* What the user types.
MarkTokens == {<<".">>, <<"X">>, <<"d", "o", "n", "e">>}

SigTokens == {NONE_STR, <<"*">>, <<"?">>}

JournalTimeTokens == {NONE_STR, yesterday, tomorrow}

SelfParentTokens == {NONE_STR, <<"1">>}

JournalInit == StoreInit

\* The command add, confirmed, on the given tokens, while the table has room.
AddRow(states, signifiers, parents, times) ==
  /\ NextId(db) <= MaxRows
  /\ \E state \in states, signifier \in signifiers, parent \in parents,
        time \in times :
       LET out == add(db, a_description, state, signifier, parent, time, TRUE) IN
       /\ call' = "add"
       /\ arg' = [description |-> a_description, state |-> state,
                  signifier |-> signifier, parent |-> parent, time |-> time,
                  confirm |-> TRUE]
       /\ result' = out.result
       /\ db' = out.table
       /\ db0' = db
  /\ UNCHANGED <<token, obj, opts, rendered, item_dict>>

\* Items with and without a time, past and to come.
JournalAdd == AddRow({<<".">>}, {NONE_STR}, {NONE_STR}, JournalTimeTokens)

\* Items with no parent, and items whose parent is item 1 (item 1 itself among them).
MarksAdd == AddRow({<<".">>}, {NONE_STR}, SelfParentTokens, {NONE_STR})

Mark ==
  /\ \E state \in MarkTokens, id \in 1..MaxRows :
       LET out == mark(db, state, id) IN
       /\ call' = "mark"
       /\ arg' = [state |-> state, id |-> id]
       /\ result' = out.result
       /\ db' = out.table
       /\ db0' = db
  /\ UNCHANGED <<token, obj, opts, rendered, item_dict>>

Sig ==
  /\ \E signifier \in SigTokens, id \in 1..MaxRows :
       LET out == sig(db, signifier, id) IN
       /\ call' = "sig"
       /\ arg' = [signifier |-> signifier, id |-> id]
       /\ result' = out.result
       /\ db' = out.table
       /\ db0' = db
  /\ UNCHANGED <<token, obj, opts, rendered, item_dict>>

Complete ==
  /\ \E list \in BOOLEAN, confirm \in BOOLEAN :
       LET out == complete(db, list, confirm) IN
       /\ call' = "complete"
       /\ arg' = [list |-> list, confirm |-> confirm]
       /\ result' = out.result
       /\ db' = out.table
       /\ db0' = db
  /\ UNCHANGED <<token, obj, opts, rendered, item_dict>>

JournalNext == JournalAdd \/ Mark \/ Complete

SpecJournal == JournalInit /\ [][JournalNext]_vars

MarksNext == MarksAdd \/ Mark \/ Sig

SpecMarks == JournalInit /\ [][MarksNext]_vars

(***************************************************************************)
(* The command list (command_line.py)                                      *)
(***************************************************************************)
\* [f(s) for s in tokens]: the first token that fails ends the comprehension.
Failures(outs) == {k \in DOMAIN outs : Raised(outs[k])}

FirstFailure(outs) ==
  outs[CHOOSE k \in Failures(outs) : \A j \in Failures(outs) : k <= j]

\* .order_by(Item.id.desc())
Descending(S) ==
  LET ids == Ascending(S) IN [k \in 1..Len(ids) |-> ids[Len(ids) + 1 - k]]

\* .limit(num_items), for num_items >= 0
Limit(rows, n) == SubSeq(rows, 1, IF n < Len(rows) THEN n ELSE Len(rows))

\* .order_by(Item.time): rows without a time come first, and the order of
\* rows with equal times is the database's to choose.
NotAfter(t1, t2) == t1 = None \/ (t2 # None /\ ~Before(t2, t1))

OrderByTime(table, ids) ==
  {rows \in [1..Cardinality(ids) -> ids] :
     /\ Range(rows) = ids
     /\ \A k \in DOMAIN rows : \A l \in DOMAIN rows :
          k < l => NotAfter(table[rows[k]].time, table[rows[l]].time)}

\* The items of a parent cycle through item i, i among them.
CycleOf(table, i) ==
  {j \in DOMAIN table :
     /\ ReachesUp(table, i, j, Cardinality(DOMAIN table))
     /\ ReachesUp(table, j, i, Cardinality(DOMAIN table))}

\* item.render(show_complete_children=False) never ends when the item lies on a
\* parent cycle none of whose items is Complete.
render_open_raises(table, i) ==
  /\ OwnAncestor(table, i)
  /\ \A j \in CycleOf(table, i) : table[j].state # COMPLETE

\* The rows echoed before the first one whose rendering raises.
RECURSIVE ShownBefore(_, _)
ShownBefore(rows, bad) ==
  IF rows = <<>> \/ Head(rows) \in bad THEN <<>>
  ELSE <<Head(rows)>> \o ShownBefore(Tail(rows), bad)

\* filt = sql.or_(filt, signifier_query)
widen(state_in, signifier_query) == state_in \/ signifier_query

\* The command list: the outcomes it can have, each with the ids it shows in
\* its three sections.  NULL in a comparison counts as not selected: the
\* filter is built from IN, IS NULL, >, == with OR and AND only.
list(table, num_items, state0, signifier0) ==
  LET states == [k \in DOMAIN state0 |-> parse_state(state0[k])]
      signifiers == [k \in DOMAIN signifier0 |-> parse_signifier(signifier0[k])]
      nothing == [last |-> <<>>, upcoming |-> <<>>, priority |-> <<>>]
  IN
  IF Failures(states) # {}
  THEN {[result |-> FirstFailure(states), shown |-> nothing]}
  ELSE IF Failures(signifiers) # {}
  THEN {[result |-> FirstFailure(signifiers), shown |-> nothing]}
  ELSE
    LET state == IF state0 # <<>>
                 THEN {states[k].returns : k \in DOMAIN states}
                 ELSE Range(ItemState)
        signifier == {signifiers[k].returns : k \in DOMAIN signifiers}
        state_in(row) == row.state \in state
        signifier_query(row) ==
          \/ row.signifier \in signifier \ {None}
          \/ None \in signifier /\ row.signifier = None
        filt(row) ==
          IF signifier0 # <<>>
          THEN widen(state_in(row), signifier_query(row))
          ELSE state_in(row)
        last == Limit(Descending({i \in DOMAIN table : filt(table[i])}), num_items)
        upcoming_ids ==
          {i \in DOMAIN table :
             /\ filt(table[i])
             /\ table[i].time # None
             /\ Before(now, table[i].time)}
        priority_ids ==
          {i \in DOMAIN table : filt(table[i]) /\ table[i].signifier = PRIORITY}
        upcoming_bad == {i \in upcoming_ids : echo_raises(table, table[i])}
        priority_bad == {i \in priority_ids : render_open_raises(table, i)}
        RecursionError == Raise("RecursionError", "maximum recursion depth exceeded")
    IN
    {IF Range(upcoming) \cap upcoming_bad # {}
     THEN [result |-> RecursionError,
           shown |-> [last |-> last, upcoming |-> ShownBefore(upcoming, upcoming_bad),
                      priority |-> <<>>]]
     ELSE IF Range(priority) \cap priority_bad # {}
     THEN [result |-> RecursionError,
           shown |-> [last |-> last, upcoming |-> upcoming,
                      priority |-> ShownBefore(priority, priority_bad)]]
     ELSE [result |-> Return(None),
           shown |-> [last |-> last, upcoming |-> upcoming, priority |-> priority]] :
     upcoming \in {Limit(rows, num_items) : rows \in OrderByTime(table, upcoming_ids)},
     priority \in OrderByTime(table, priority_ids)}

\* What the user types.
ListStateTokens == {<<".">>, <<"x">>}

ListSignifierTokens == {NONE_STR, <<"*">>}

ListTimeTokens == {NONE_STR, tomorrow}

StateFilters == {<<>>, <<<<"x">>>>, <<<<"d", "o", "n", "e">>>>}

SignifierFilters == {<<>>, <<<<"*">>>>, <<NONE_STR>>, <<<<"*">>, <<"?">>>>}

NumItems == {1, 5}

\* Items of either state, with and without a signifier and a time.
ListAdd == AddRow(ListStateTokens, ListSignifierTokens, {NONE_STR}, ListTimeTokens)

List ==
  /\ \E num_items \in NumItems, state \in StateFilters,
        signifier \in SignifierFilters :
       \E out \in list(db, num_items, state, signifier) :
         /\ call' = "list"
         /\ arg' = [num_items |-> num_items, state |-> state,
                    signifier |-> signifier]
         /\ result' = out.result
         /\ rendered' = out.shown
         /\ db0' = db
  /\ UNCHANGED <<db, token, obj, opts, item_dict>>

ListNext == ListAdd \/ List

SpecList == JournalInit /\ [][ListNext]_vars

(***************************************************************************)
(* Claims about the resolvers, checked under SpecResolve                   *)
(***************************************************************************)
Members == Range(ItemState) \cup Range(ItemSignifier)

Symbols == Keys(ItemStateDict) \cup Keys(ItemSignifierDict)

SymbolOf(m) ==
  IF m.enum = "ItemState" THEN Get(ItemStateDictInv, m) ELSE Get(ItemSignifierDictInv, m)

\* The strings that name member m: its symbol, its value, its prefixes of length >= 3.
NamesOf(m) == {SymbolOf(m), m.value} \cup {p \in Prefixes(m.value) : Len(p) >= 3}

InvalidChoice(r) ==
  /\ Raised(r)
  /\ r.raises = "ValueError"
  /\ r.message.what = "Invalid choice"

\* C1: parse_choice returns member m for the symbol, the value and every prefix
\* of length >= 3 of m, None for 'none' and 'all', and fails with the
\* invalid-choice error for every other string.
C1_ParseChoiceClassifies ==
  call = "parse_choice" =>
    /\ \A m \in Members : token \in NamesOf(m) => result = Return(m)
    /\ token \in {NONE_STR, ALL_STR} => result = Return(None)
    /\ (token \notin {NONE_STR, ALL_STR} /\ \A m \in Members : token \notin NamesOf(m))
         => InvalidChoice(result)

C1_Witness ==
  /\ call = "parse_choice"
  /\ token = <<"i", "n", "s">>
  /\ result = Return(INSPIRATION)

Normalize(t) == Replace(Lower(Strip(t)), "\n", " ")

SameOutcome(r1, r2) ==
  \/ Returned(r1) /\ Returned(r2) /\ r1 = r2
  \/ Raised(r1) /\ Raised(r2)

\* C2: parse_choice gives for every token the outcome it gives for the token
\* trimmed, lowercased and with its newlines replaced by spaces.
C2_ParseChoiceNormalizes ==
  call = "parse_choice" => SameOutcome(result, parse_choice(Normalize(token)))

IsStateValue(s) == \E m \in Range(ItemState) : m.value = s

IsSignifierValue(s) == \E m \in Range(ItemSignifier) : m.value = s

\* Position of the first member of enum, in declared order, whose value starts with s.
FirstStarting(enum, s) ==
  CHOOSE i \in 1..Len(enum) :
    /\ StartsWith(enum[i].value, s)
    /\ \A k \in 1..Len(enum) : StartsWith(enum[k].value, s) => i <= k

\* C3: the steps of parse_choice apply in priority order: sentinel, symbol,
\* full value (statuses first), then, only for a token of length >= 3, the first
\* status in declared order whose value starts with the token, else the first such
\* signifier; a shorter token that is no sentinel, symbol or full value fails.
C3_ParseChoicePriority ==
  call = "parse_choice" =>
    LET s == token
        sentinel == s \in {NONE_STR, ALL_STR}
        symbol == s \in Symbols
        full == IsStateValue(s) \/ IsSignifierValue(s)
        exact == sentinel \/ symbol \/ full
        status == \E m \in Range(ItemState) : StartsWith(m.value, s)
        signif == \E m \in Range(ItemSignifier) : StartsWith(m.value, s)
    IN /\ sentinel => result = Return(None)
       /\ (symbol /\ ~sentinel) =>
            \E m \in Members : SymbolOf(m) = s /\ result = Return(m)
       /\ (IsStateValue(s) /\ ~sentinel /\ ~symbol) =>
            \E m \in Range(ItemState) : m.value = s /\ result = Return(m)
       /\ (IsSignifierValue(s) /\ ~IsStateValue(s) /\ ~sentinel /\ ~symbol) =>
            \E m \in Range(ItemSignifier) : m.value = s /\ result = Return(m)
       /\ (~exact /\ Len(s) >= 3 /\ status) =>
            result = Return(ItemState[FirstStarting(ItemState, s)])
       /\ (~exact /\ Len(s) >= 3 /\ ~status /\ signif) =>
            result = Return(ItemSignifier[FirstStarting(ItemSignifier, s)])
       /\ (~exact /\ Len(s) >= 3 /\ ~status /\ ~signif) => InvalidChoice(result)
       /\ (~exact /\ Len(s) < 3) => InvalidChoice(result)

C3_Witness ==
  /\ call = "parse_choice"
  /\ token = <<"c", "o", "m", "p">>
  /\ result = Return(COMPLETE)

ProperPrefixes(m) == {p \in Prefixes(m.value) : p # m.value}

StrictError(r, what) ==
  /\ Raised(r)
  /\ r.raises = "RuntimeError"
  /\ r.message.what = what

StateNames(m) == {SymbolOf(m), m.value}

RECURSIVE PathTo(_, _, _)
PathTo(table, root, i) ==
  IF i = root THEN <<i>> ELSE Append(PathTo(table, root, table[i].parent_id.int), i)

\* The items of the subtree of root: root and all it is a transitive ancestor of.
RECURSIVE Under(_, _, _)
Under(table, root, i) ==
  \/ i = root
  \/ /\ IsInt(table[i].parent_id)
     /\ table[i].parent_id.int \in DOMAIN table
     /\ table[i].parent_id.int < i
     /\ Under(table, root, table[i].parent_id.int)

Subtree(table, root) == {i \in DOMAIN table : Under(table, root, i)}

DepthBelow(table, root, i) == Len(PathTo(table, root, i)) - 1

\* Pre-order with children by id: i comes before j when the path to i is a proper
\* prefix of the path to j, or is smaller where the two first differ.
Precedes(table, root, i, j) ==
  LET pi == PathTo(table, root, i)
      pj == PathTo(table, root, j)
  IN \/ Len(pi) < Len(pj) /\ SubSeq(pj, 1, Len(pi)) = pi
     \/ \E k \in 1..Len(pi) :
          /\ k <= Len(pj)
          /\ SubSeq(pi, 1, k - 1) = SubSeq(pj, 1, k - 1)
          /\ pi[k] < pj[k]

PreOrder(table, root, S) ==
  [k \in 1..Cardinality(S) |->
     CHOOSE i \in S : Cardinality({j \in S : Precedes(table, root, j, i)}) = k - 1]

Spaces(n) == [k \in 1..n |-> " "]

RECURSIVE Flatten(_)
Flatten(seqs) == IF seqs = <<>> THEN <<>> ELSE Head(seqs) \o Flatten(Tail(seqs))

\* The lines of the items of S in pre-order: each line of an item's own text,
\* behind two spaces per level below the rendered item.
LinesOf(table, root, S, render_opts) ==
  LET order == PreOrder(table, root, S) IN
  Flatten([k \in 1..Len(order) |->
    LET own == Split(render_self(table[order[k]], render_opts)) IN
    [n \in 1..Len(own) |->
       Spaces(2 * DepthBelow(table, root, order[k])) \o own[n]]])

\* The descendants that are Complete or lie under a Complete descendant.
Suppressed(table, root) ==
  {i \in Subtree(table, root) :
     \E k \in 2..Len(PathTo(table, root, i)) :
        table[PathTo(table, root, i)[k]].state = COMPLETE}

Effective == RenderOpts(opts.kwargs, opts.env)

\* C5: with show_children and without show_complete_children, render outputs no
\* line for a Complete descendant or for a descendant of one, and the lines of
\* every other item of the subtree; the rendered item itself is always output.
C5_CompleteChildrenSuppressed ==
  (call = "render" /\ obj.id # None
   /\ Effective.show_children /\ ~Effective.show_complete_children) =>
    LET root == obj.id.int IN
    Split(rendered) =
      LinesOf(db, root, Subtree(db, root) \ Suppressed(db, root), Effective)

C5_Witness ==
  /\ call = "render"
  /\ Effective.show_children /\ ~Effective.show_complete_children
  /\ DOMAIN db = 1..4
  /\ db[1].state = COMPLETE
  /\ db[2].state = COMPLETE /\ db[2].parent_id = PyInt(1)
  /\ db[3].state = INCOMPLETE /\ db[3].parent_id = PyInt(2)
  /\ db[4].state = INCOMPLETE /\ db[4].parent_id = PyInt(1)
  /\ Len(Split(rendered)) >= 2

\* C6 as stated: with show_children (and show_complete_children) render emits
\* exactly one line per item of the subtree, in pre-order, each behind two spaces
\* per level; without show_children exactly the one line of the rendered item.
C6_OneLinePerItem ==
  (call = "render" /\ obj.id # None) =>
    LET root == obj.id.int
        order == PreOrder(db, root, Subtree(db, root))
    IN /\ (Effective.show_children /\ Effective.show_complete_children) =>
            Split(rendered) =
              [k \in 1..Len(order) |->
                 Spaces(2 * DepthBelow(db, root, order[k]))
                 \o render_self(db[order[k]], Effective)]
       /\ ~Effective.show_children => Split(rendered) = <<render_self(obj, Effective)>>

\* C6, amended: with show_children (and show_complete_children) render emits, for
\* each item of the subtree in pre-order, the lines of the item's own text (one
\* per line of its description), each behind two spaces per level; without
\* show_children only the own text of the rendered item.
C6_OwnLinesPerItem ==
  (call = "render" /\ obj.id # None) =>
    LET root == obj.id.int IN
    /\ (Effective.show_children /\ Effective.show_complete_children) =>
         Split(rendered) = LinesOf(db, root, Subtree(db, root), Effective)
    /\ ~Effective.show_children => rendered = render_self(obj, Effective)
    /\ (\A i \in Subtree(db, root) : "\n" \notin Range(db[i].description)) =>
         /\ (Effective.show_children /\ Effective.show_complete_children) =>
              Len(Split(rendered)) = Cardinality(Subtree(db, root))
         /\ ~Effective.show_children => Len(Split(rendered)) = 1

C6_Witness ==
  /\ call = "render"
  /\ Effective.show_children /\ Effective.show_complete_children
  /\ DOMAIN db = 1..4
  /\ db[2].parent_id = PyInt(1)
  /\ db[3].parent_id = PyInt(2)
  /\ db[4].parent_id = PyInt(1)
  /\ db[3].description = two_line_description
  /\ Len(Split(rendered)) = 5

Verbose == IF "verbose_mode" \in DOMAIN opts.kwargs
           THEN opts.kwargs.verbose_mode ELSE opts.env.BOJO_VERBOSE

\* The parts of a line, left to right.
IdPart == IF obj.id # None
          THEN <<"ESC[4m">> \o IntToText(obj.id.int) \o <<RESET, " ">> ELSE <<>>

ValuePart(member) == IF Verbose THEN <<" ", "(">> \o member.value \o <<")">> ELSE <<>>

SignifierPart == IF obj.signifier # None
                 THEN SymbolOf(obj.signifier) \o ValuePart(obj.signifier) \o <<" ">>
                 ELSE <<>>

StatePart == SymbolOf(obj.state) \o ValuePart(obj.state) \o <<" ">>

ColorOf(state) == (CHOOSE e \in Range(ItemStates) : e.state = state).color

DescriptionPart == colored(obj.description, ColorOf(obj.state))

TimePart == IF obj.time # None
            THEN <<" ", "ESC[2m">> \o strftime(obj.time) \o <<RESET>> ELSE <<>>

Childless == call = "render" /\ ChildIds(db, obj) = {}

\* C7 as stated: the line of a childless item is id, signifier symbol, state
\* symbol, colored description, dim time, each only when present, the symbols
\* followed by the enum value in parentheses in verbose mode, and for a Priority
\* item the bold style spans the entire line.
C7_BoldSpansLine ==
  Childless =>
    LET line == IdPart \o SignifierPart \o StatePart \o DescriptionPart \o TimePart IN
    rendered = IF obj.signifier = PRIORITY THEN <<"ESC[1m">> \o line \o <<RESET>> ELSE line

\* C7, amended: the same composition, and for a Priority item the bold style
\* spans the signifier symbol, the state symbol and the description; the id
\* before it and the time after it are outside the bold span.
C7_BoldSpansCore ==
  Childless =>
    LET core == SignifierPart \o StatePart \o DescriptionPart IN
    rendered = IdPart
               \o (IF obj.signifier = PRIORITY
                   THEN <<"ESC[1m">> \o core \o <<RESET>> ELSE core)
               \o TimePart

C7_Witness ==
  /\ Childless
  /\ obj.signifier = PRIORITY
  /\ obj.id = PyInt(3)
  /\ obj.time = june_9
  /\ Verbose
  /\ Len(rendered) > Len(obj.description)

(***************************************************************************)
(* Claims about Item.as_dict and Item.from_dict, checked under SpecDict     *)
(***************************************************************************)
\* C8: for any item, whatever optional fields are present and whatever its
\* timestamps, from_dict(as_dict(item)) succeeds and equals the item on every
\* field; a field absent before export is absent after import.
\* (A parent_id that is not an int, the 'none' that add stores for an item
\* without a parent, counts as absent.)
C8_RoundTrip ==
  call = "from_dict" =>
    /\ Returned(result)
    /\ \A f \in DOMAIN obj \ {"parent_id"} : result.returns[f] = obj[f]
    /\ result.returns.parent_id = IF IsInt(obj.parent_id) THEN obj.parent_id ELSE None

(***************************************************************************)
(* Claims about the store, checked under SpecStore                         *)
(***************************************************************************)
\* The ids reached from i by following parent_id, in at most n steps.
RECURSIVE AncestorsOf(_, _, _)
AncestorsOf(table, i, n) ==
  IF n = 0 \/ i \notin DOMAIN table \/ ~IsInt(table[i].parent_id) THEN {}
  ELSE {table[i].parent_id.int}
       \cup AncestorsOf(table, table[i].parent_id.int, n - 1)

Ancestors(table, i) == AncestorsOf(table, i, Cardinality(DOMAIN table))

Descendants(table, i) == {j \in DOMAIN table : i \in Ancestors(table, j)}

\* C9: in every reachable store the parent/child relation is acyclic: no item is
\* its own transitive ancestor.
C9_Acyclic == \A i \in DOMAIN db : i \notin Ancestors(db, i)

\* C10: a delete that goes through removes the item and every transitive
\* descendant and nothing else; a delete that fails (no such item, the item
\* cannot be shown, the user declines) removes nothing; deletion is never partial.
C10_DeleteCascades ==
  call = "delete" =>
    LET gone == {arg.id} \cup Descendants(db0, arg.id) IN
    /\ Returned(result) =>
         /\ arg.id \in DOMAIN db0
         /\ DOMAIN db = DOMAIN db0 \ gone
    /\ Raised(result) => DOMAIN db = DOMAIN db0
    /\ \A j \in DOMAIN db : db[j] = db0[j]
    /\ (arg.id \in DOMAIN db0 /\ arg.confirm /\ arg.id \notin Ancestors(db0, arg.id))
         => Returned(result)

C10_Witness ==
  /\ call = "delete"
  /\ Returned(result)
  /\ arg.id = 1
  /\ DOMAIN db0 = {1, 2, 3}
  /\ db0[2].parent_id = PyInt(1)
  /\ db0[3].parent_id = PyInt(2)
  /\ DOMAIN db = {}

(***************************************************************************)
(* Claims about the sweep, checked under SpecJournal                       *)
(***************************************************************************)
\* An item the sweep is for: it has a time, the time is before the current
\* time, and its state is not Complete.
Due(row) ==
  /\ row.time # None
  /\ Before(row.time, now)
  /\ row.state # COMPLETE

\* C11: the command complete never deletes or creates an item; an item it
\* changes was due (its time before the current time, its state not Complete),
\* ends in the state Complete and differs from what it was in its state and
\* its updated timestamp only; an item with no time is never changed; and a
\* sweep that goes through leaves every due item Complete.
C11_SweepOnlyCompletesDue ==
  call = "complete" =>
    /\ DOMAIN db = DOMAIN db0
    /\ \A i \in DOMAIN db0 :
         /\ db[i] # db0[i] =>
              /\ Due(db0[i])
              /\ ~arg.list
              /\ db[i].state = COMPLETE
              /\ \A f \in DOMAIN db0[i] \ {"state", "time_updated"} :
                   db[i][f] = db0[i][f]
         /\ db0[i].time = None => db[i] = db0[i]
         /\ (Due(db0[i]) /\ ~arg.list /\ arg.confirm) =>
              /\ db[i].state = COMPLETE
              /\ db[i].time_updated = now

C11_Witness ==
  /\ call = "complete"
  /\ ~arg.list
  /\ Returned(result)
  /\ DOMAIN db0 = {1, 2}
  /\ db0[1].time = dateparser_parse(yesterday)
  /\ db0[1].state = INCOMPLETE
  /\ db0[2].time = None
  /\ db0[2].state = INCOMPLETE
  /\ db[1].state = COMPLETE
  /\ db[2] = db0[2]

(***************************************************************************)
(* Claims about mark and sig, checked under SpecMarks                      *)
(***************************************************************************)
\* What the tokens tried mean; a token that is not listed names nothing.
MarkMeaning == (<<".">> :> INCOMPLETE) @@ (<<"X">> :> COMPLETE)

SigMeaning == (NONE_STR :> None) @@ (<<"*">> :> PRIORITY)

Changing == call \in {"mark", "sig"}

Field == IF call = "mark" THEN "state" ELSE "signifier"

Meaning == IF call = "mark" THEN MarkMeaning ELSE SigMeaning

TokenTyped == IF call = "mark" THEN arg.state ELSE arg.signifier

NotFound(r, id) ==
  /\ Raised(r)
  /\ r.raises = "RuntimeError"
  /\ r.message = [what |-> "Item not found", id |-> id]

\* The store after mark or sig differs from the store before in at most the
\* item named, and there in at most the field the command is for and the
\* updated timestamp.
TouchesOne ==
  /\ DOMAIN db = DOMAIN db0
  /\ \A j \in DOMAIN db0 \ {arg.id} : db[j] = db0[j]
  /\ arg.id \in DOMAIN db0 =>
       \A f \in DOMAIN db0[arg.id] \ {Field, "time_updated"} :
         db[arg.id][f] = db0[arg.id][f]

\* C12 as stated: mark and sig touch exactly one entity, and when the id is
\* absent from the store the command fails with a not-found error naming the
\* id and leaves the store as it was.
C12_OneEntityOrNotFound ==
  Changing =>
    /\ TouchesOne
    /\ arg.id \notin DOMAIN db0 => (NotFound(result, arg.id) /\ db = db0)

\* C12, amended: mark and sig touch exactly one entity.  When the token names a
\* state (a signifier) and the id exists, the item gets that state (signifier)
\* and, if this changed it, the current time as its updated timestamp; when
\* the token names one and the id is absent, the command fails with a
\* not-found error naming the id; when the token names none, the command
\* fails with an invalid-choice error whether or not the id exists.  In both
\* failures the store is left as it was.
C12_OneEntityTokenFirst ==
  Changing =>
    /\ TouchesOne
    /\ (TokenTyped \in DOMAIN Meaning /\ arg.id \in DOMAIN db0) =>
         /\ db[arg.id][Field] = Meaning[TokenTyped]
         /\ db[arg.id].time_updated =
              IF db0[arg.id][Field] = Meaning[TokenTyped]
              THEN db0[arg.id].time_updated ELSE now
    /\ (TokenTyped \in DOMAIN Meaning /\ arg.id \notin DOMAIN db0) =>
         (NotFound(result, arg.id) /\ db = db0)
    /\ TokenTyped \notin DOMAIN Meaning =>
         /\ Raised(result)
         /\ result.raises = "RuntimeError"
         /\ result.message.what \in {"Invalid state", "Invalid signifier"}
         /\ db = db0

C12_Witness ==
  /\ call = "mark"
  /\ arg.state = <<"X">>
  /\ arg.id = 2
  /\ DOMAIN db0 = {1, 2}
  /\ db0[2].state = INCOMPLETE
  /\ db[2].state = COMPLETE
  /\ db[2].time_updated = now
  /\ db[1] = db0[1]

(***************************************************************************)
(* Referential integrity of parent links, checked under SpecStore          *)
(***************************************************************************)
\* C13: after any sequence of add and delete, every stored item whose
\* parent_id is present (an integer) names an item that is in the store.
C13_ParentsExist ==
  \A i \in DOMAIN db :
    IsInt(db[i].parent_id) => db[i].parent_id.int \in DOMAIN db

(***************************************************************************)
(* Claims about the command list, checked under SpecList                   *)
(***************************************************************************)
\* What the filter tokens tried mean.
StateFilterMeaning == (<<"x">> :> COMPLETE)

SignifierFilterMeaning == (NONE_STR :> None) @@ (<<"*">> :> PRIORITY)

Requested(meaning, tokens) == {meaning[tokens[k]] : k \in DOMAIN tokens}

\* C14: when list is given signifier filters, every item of its 'last N items'
\* section has a signifier among those asked for (the token 'none' asking for
\* the items without one), and when it is given state filters too, every such
\* item also has a state among those asked for.
C14_ListHonoursFilters ==
  (call = "list" /\ Returned(result) /\ arg.signifier # <<>>) =>
    \A k \in DOMAIN rendered.last :
      LET row == db[rendered.last[k]] IN
      /\ row.signifier \in Requested(SignifierFilterMeaning, arg.signifier)
      /\ arg.state # <<>> =>
           row.state \in Requested(StateFilterMeaning, arg.state)

====
